---- MODULE Spec2Model ----
(***************************************************************************)
(* s3-bulk-move (src/bin/s3-bulk-move.rs): parse the command line, list    *)
(* the source bucket page by page, map every listed object to a            *)
(* (relative key, size) record, filter / rename it with the optional       *)
(* regex and template, and print it.                                       *)
(*                                                                         *)
(* Strings are sequences of one-character strings.  Option<T> is a         *)
(* sequence of length 0 (None) or 1 (Some).                                *)
(***************************************************************************)
EXTENDS Integers, Sequences, FiniteSets, TLC

VARIABLES
    args,         \* the command line and environment (Args, AWS_DEFAULT_REGION)
    listing,      \* the bucket's content, when the service is modelled (ListSpec)
    pc,           \* position of run(): start, loop, waiting, emit, done, failed, panicked
    list_req,     \* list_req: bucket, prefix, marker
    src_filter,   \* Option<Regex>
    dest_replace, \* Option<&str>
    next_marker,  \* Option<String>
    rsp,          \* the response being processed (contents, is_truncated)
    idx,          \* position of the objs iterator in rsp.contents
    out,          \* the records printed so far, in order
    err,          \* Option: the error main() printed before exit(1)
    reqs,         \* history: every request sent to list_objects
    fails,        \* history: how many calls of list_objects returned Err
    pages         \* history: every response list_objects returned

vars == <<args, listing, pc, list_req, src_filter, dest_replace, next_marker,
          rsp, idx, out, err, reqs, fails, pages>>

---------------------------------------------------------------------------
\* Bounds of the model.

\* number of list_objects calls one run may make
MaxFetches == 3
\* most entries the modelled service puts in one page (ListSpec)
MaxKeys == 2
\* longest tail of a location string after its head (ParseSpec)
MaxTail == 4

---------------------------------------------------------------------------
\* Option and string helpers.

None == <<>>
Some(x) == <<x>>
IsSome(o) == o # <<>>
IsNone(o) == o = <<>>
Unwrap(o) == o[1]

Min(S) == CHOOSE x \in S : \A y \in S : x <= y
Max(S) == CHOOSE x \in S : \A y \in S : x >= y

\* str.len() / String::len()
StrLen(s) == Len(s)

\* split_off gone wrong: one character too many is dropped
SplitOffMutant(s, from) == SubSeq(s, from + 2, Len(s))
\* s[from..] (0-based byte offset from), as String::split_off(from) returns
SplitOff(s, from) == SubSeq(s, from + 1, Len(s))

StartsWith(s, p) == Len(p) <= Len(s) /\ SubSeq(s, 1, Len(p)) = p

RECURSIVE SeqsUpTo(_, _)
SeqsUpTo(S, n) ==
    IF n = 0 THEN {<<>>}
    ELSE LET shorter == SeqsUpTo(S, n - 1)
         IN  shorter \cup {Append(s, c) : s \in shorter, c \in S}

---------------------------------------------------------------------------
\* S3UrlVisitor::visit_str: S3_URL_REGEX, ^s3:// then a group of one or more
\* non-slash characters, a slash, and a group of any number of dots, applied to v.

Scheme == <<"s", "3", ":", "/", "/">>
LF == "\n"

\* length of the longest run of characters of s, from position i on, that
\* are not in stop (a greedy repetition of a character class)
RECURSIVE RunLen(_, _, _)
RunLen(s, i, stop) ==
    IF i <= Len(s) /\ s[i] \notin stop THEN 1 + RunLen(s, i + 1, stop) ELSE 0

\* what [^/] does not match
NotSlashStop == {"/"}
\* what '.' does not match: the line feed
DotStop == {LF}

\* Regex::captures for S3_URL_REGEX: None, or Some(<<group 1, group 2>>)
S3UrlCaptures(v) ==
    IF ~StartsWith(v, Scheme) THEN None
    ELSE LET b0 == Len(Scheme) + 1
             bn == RunLen(v, b0, NotSlashStop)
         IN  IF bn = 0 \/ b0 + bn > Len(v) THEN None
             ELSE LET p0 == b0 + bn + 1
                      pn == RunLen(v, p0, DotStop)
                  IN  Some(<<SubSeq(v, b0, b0 + bn - 1), SubSeq(v, p0, p0 + pn - 1)>>)

\* Result<S3Url, E>: None is Err(invalid_value), Some is Ok(S3Url)
visit_str(v) ==
    LET matches == S3UrlCaptures(v)
    IN  IF IsNone(matches) THEN None
        ELSE LET prefix == Unwrap(matches)[2]
             IN  Some([bucket |-> Unwrap(matches)[1],
                       prefix |-> IF StrLen(prefix) > 0 THEN Some(prefix) ELSE None])

---------------------------------------------------------------------------
\* The regex crate, for the patterns the model draws: a group holding the
\* literal lit, then a group of any number of dots; searched anywhere in the
\* text, or only at its start when anchored.

Pattern(anchored, lit) == [valid |-> TRUE, anchored |-> anchored, lit |-> lit]
BadPattern == [valid |-> FALSE, anchored |-> FALSE, lit |-> <<>>]

\* Regex::new: None when the source does not compile
RegexNew(s) == IF s.valid THEN Some(s) ELSE None

MatchStarts(re, text) ==
    {i \in (IF re.anchored THEN {1} ELSE 1..(Len(text) + 1)) :
        /\ i + Len(re.lit) - 1 <= Len(text)
        /\ SubSeq(text, i, i + Len(re.lit) - 1) = re.lit}

\* Regex::is_match
is_match(re, text) == MatchStarts(re, text) # {}

\* Regex::captures: None, or Some(<<group 0, group 1, group 2>>) of the
\* leftmost match
captures(re, text) ==
    IF MatchStarts(re, text) = {} THEN None
    ELSE LET i == Min(MatchStarts(re, text))
             j == i + Len(re.lit)
             n == RunLen(text, j, DotStop)
         IN  Some(<<SubSeq(text, i, j + n - 1), re.lit, SubSeq(text, j, j + n - 1)>>)

\* A template is a sequence of tokens: a literal character or a group
\* reference $n.
Lit(c) == [grp |-> -1, chr |-> c]
Grp(n) == [grp |-> n, chr |-> ""]

\* Captures::expand: a reference to a group the match lacks expands to ""
RECURSIVE expand(_, _)
expand(caps, rep) ==
    IF rep = <<>> THEN <<>>
    ELSE LET t == Head(rep)
             piece == IF t.grp < 0 THEN <<t.chr>>
                      ELSE IF t.grp + 1 <= Len(caps) THEN caps[t.grp + 1]
                      ELSE <<>>
         IN  piece \o expand(caps, Tail(rep))

---------------------------------------------------------------------------
\* Region::from_str and get_region.

KnownRegions == {"us-east-1", "us-west-2"}

\* Result<Region, _>: None is Err
RegionFromStr(s) == IF s \in KnownRegions THEN Some(s) ELSE None

get_region(region_flag, default_region) ==
    RegionFromStr(IF IsSome(region_flag) THEN Unwrap(region_flag) ELSE default_region)

---------------------------------------------------------------------------
\* The values the model draws its inputs from.

UrlBare == Scheme \o <<"k", "/">>
UrlPrefixed == Scheme \o <<"k", "/", "p", "/">>
UrlMalformed == <<"k", "/", "p">>

\* the patterns and the template of a run
PatB == Pattern(FALSE, <<"b">>)
PatStartA == Pattern(TRUE, <<"a">>)
TemplateX21 == <<Lit("x"), Grp(2), Lit("/"), Grp(1)>>

\* rusoto_s3::Object, of which the program reads key and size
Obj(key, size) == [key |-> key, size |-> size]

KeyA == <<"a">>
KeyAB == <<"a", "b">>
KeyB == <<"b">>

\* Option<Vec<Object>> values list_objects may return, with the keys relative
\* to the requested prefix
ContentsPool ==
    { None,
      Some(<<>>),
      Some(<<Obj(Some(KeyA), Some(1)), Obj(Some(KeyB), Some(2))>>),
      Some(<<Obj(Some(KeyB), Some(2)), Obj(Some(KeyAB), Some(3)), Obj(Some(KeyA), Some(1))>>),
      Some(<<Obj(Some(KeyA), Some(1)), Obj(None, Some(2))>>),
      Some(<<Obj(Some(KeyAB), None), Obj(Some(KeyB), Some(2))>>),
      Some(<<Obj(Some(KeyAB), Some(3))>>) }

\* Option<bool> values of is_truncated
TruncatedPool == {None, Some(TRUE), Some(FALSE)}

\* bucket contents in listing order (keys ascending), relative to the prefix
ListingPool ==
    { <<>>,
      <<Obj(Some(KeyA), Some(1))>>,
      <<Obj(Some(KeyA), Some(1)), Obj(Some(KeyAB), Some(3)), Obj(Some(KeyB), Some(2))>>,
      <<Obj(Some(KeyA), Some(1)), Obj(None, Some(2)), Obj(Some(KeyB), Some(2))>>,
      <<Obj(Some(KeyA), Some(1)), Obj(Some(KeyAB), None), Obj(Some(KeyB), Some(2))>>,
      <<Obj(None, Some(1)), Obj(Some(KeyAB), Some(3))>>,
      <<Obj(Some(KeyA), None), Obj(Some(KeyB), Some(2)), Obj(None, None)>> }

\* the key an object under prefix has in the bucket
FullKey(prefix, rel) == (IF IsSome(prefix) THEN Unwrap(prefix) ELSE <<>>) \o rel

UnderPrefix(prefix, objs) ==
    [i \in 1..Len(objs) |->
        Obj(IF IsSome(objs[i].key) THEN Some(FullKey(prefix, Unwrap(objs[i].key))) ELSE None,
            objs[i].size)]

ArgsOf(src, dest, filter, replace, src_region, dest_region, env_region) ==
    [arg_src_url |-> src, arg_dest_url |-> dest,
     flag_src_filter |-> filter, flag_dest_replace |-> replace,
     flag_src_region |-> src_region, flag_dest_region |-> dest_region,
     env_region |-> env_region]

\* command lines with which the run reaches the listing loop
GoodArgs ==
    { ArgsOf(src, UrlBare, filter, replace, None, None, None) :
        src \in {UrlBare, UrlPrefixed},
        filter \in {None, Some(PatB), Some(PatStartA)},
        replace \in {None, Some(TemplateX21)} }

\* command lines with which the run ends before the listing loop
BadArgs ==
    { ArgsOf(UrlMalformed, UrlBare, None, None, None, None, None),
      ArgsOf(UrlBare, UrlMalformed, None, None, None, None, None),
      ArgsOf(UrlBare, UrlBare, None, None, Some("bogus"), None, None),
      ArgsOf(UrlBare, UrlBare, None, None, None, Some("bogus"), None),
      ArgsOf(UrlBare, UrlBare, None, None, None, Some("us-west-2"), Some("bogus")),
      ArgsOf(UrlBare, UrlBare, None, None, None, None, Some("bogus")),
      ArgsOf(UrlBare, UrlBare, Some(BadPattern), None, None, None, None) }

---------------------------------------------------------------------------
\* The state before main() runs.

NoRsp == [contents |-> None, is_truncated |-> None]
NoReq == [bucket |-> <<>>, prefix |-> None, marker |-> None]

InitWith(a, l) ==
    /\ args = a
    /\ listing = l
    /\ pc = "start"
    /\ list_req = NoReq
    /\ src_filter = None
    /\ dest_replace = None
    /\ next_marker = None
    /\ rsp = NoRsp
    /\ idx = 0
    /\ out = <<>>
    /\ err = None
    /\ reqs = <<>>
    /\ fails = 0
    /\ pages = <<>>

Init == \E a \in GoodArgs \cup BadArgs : InitWith(a, <<>>)

---------------------------------------------------------------------------
\* run(), lines 98-115: the command line, the regions, the filter, list_req.

DefaultRegion == "us-east-1"

Startup ==
    /\ pc = "start"
    /\ LET src == visit_str(args.arg_src_url)
           dest == visit_str(args.arg_dest_url)
           default_region == IF IsSome(args.env_region) THEN Unwrap(args.env_region)
                             ELSE DefaultRegion
           compiled == IF IsSome(args.flag_src_filter)
                       THEN RegexNew(Unwrap(args.flag_src_filter)) ELSE None
           ends(p, e) ==
               /\ pc' = p
               /\ err' = e
               /\ UNCHANGED <<list_req, src_filter, dest_replace, next_marker>>
       IN  IF IsNone(src) \/ IsNone(dest)
           THEN ends("failed", Some("MalformedLocation"))
           ELSE IF \/ IsNone(get_region(args.flag_src_region, default_region))
                   \/ IsNone(get_region(args.flag_dest_region, default_region))
           THEN ends("failed", Some("UnknownRegion"))
           ELSE IF IsSome(args.flag_src_filter) /\ IsNone(compiled)
           THEN ends("panicked", None)
           ELSE /\ pc' = "loop"
                /\ err' = None
                /\ list_req' = [bucket |-> Unwrap(src).bucket,
                                prefix |-> Unwrap(src).prefix,
                                marker |-> None]
                /\ src_filter' = compiled
                /\ dest_replace' = args.flag_dest_replace
                /\ next_marker' = None
    /\ UNCHANGED <<args, listing, rsp, idx, out, reqs, fails, pages>>

---------------------------------------------------------------------------
\* The listing loop, lines 117-164.

\* the loop gone wrong: the next request leaves while a page is being printed
FetchIssueMutant ==
    /\ pc \in {"loop", "emit"}
    /\ Len(reqs) < MaxFetches
    /\ list_req' = [list_req EXCEPT !.marker = next_marker]
    /\ reqs' = Append(reqs, list_req')
    /\ pc' = "waiting"
    /\ UNCHANGED <<args, listing, src_filter, dest_replace, next_marker, rsp, idx,
                   out, err, fails, pages>>
\* lines 118-119: the request leaves with the marker of the previous page
FetchIssue ==
    /\ pc = "loop"
    /\ Len(reqs) < MaxFetches
    /\ list_req' = [list_req EXCEPT !.marker = next_marker]
    /\ reqs' = Append(reqs, list_req')
    /\ pc' = "waiting"
    /\ UNCHANGED <<args, listing, src_filter, dest_replace, next_marker, rsp, idx,
                   out, err, fails, pages>>

\* the loop gone wrong: a failed call is swallowed and tried again
FetchFailMutant ==
    /\ pc = "waiting"
    /\ pc' = "loop"
    /\ fails' = fails + 1
    /\ UNCHANGED <<args, listing, list_req, src_filter, dest_replace, next_marker,
                   rsp, idx, out, err, reqs, pages>>
\* line 119, the ? on an Err, and main(): the error is printed, exit(1)
FetchFail ==
    /\ pc = "waiting"
    /\ pc' = "failed"
    /\ err' = Some("StorageApiError")
    /\ fails' = fails + 1
    /\ UNCHANGED <<args, listing, list_req, src_filter, dest_replace, next_marker,
                   rsp, idx, out, reqs, pages>>

\* line 120
IsEmptyPage(r) == IsNone(r.contents) \/ Unwrap(r.contents) = <<>>

\* lines 119-122: the response arrives; an empty one ends the loop
Receive(r) ==
    /\ rsp' = r
    /\ pages' = Append(pages, r)
    /\ IF IsEmptyPage(r)
       THEN pc' = "done" /\ idx' = idx
       ELSE pc' = "emit" /\ idx' = 1
    /\ UNCHANGED <<args, listing, list_req, src_filter, dest_replace, next_marker,
                   out, err, reqs, fails>>

\* any response at all: list_objects as an unconstrained collaborator that
\* keeps to the requested prefix
FetchReturn ==
    /\ pc = "waiting"
    /\ \E c \in ContentsPool, t \in TruncatedPool :
          Receive([contents |-> IF IsSome(c)
                                THEN Some(UnderPrefix(list_req.prefix, Unwrap(c)))
                                ELSE None,
                   is_truncated |-> t])

\* line 125
HasKeyAndSize(obj) == IsSome(obj.key) /\ IsSome(obj.size)

\* lines 128-131
PfxLen(prefix) == IF IsSome(prefix) THEN StrLen(Unwrap(prefix)) ELSE 0

\* lines 126-133
MapObj(obj, prefix) ==
    [key |-> SplitOff(Unwrap(obj.key), PfxLen(prefix)), size |-> Unwrap(obj.size)]

\* the filter gone wrong: without a template the matched text is printed,
\* not the key
FilterRenameMutant(rec, re, rep) ==
    IF IsSome(re)
    THEN LET caps == captures(Unwrap(re), rec.key)
         IN  IF IsSome(caps)
             THEN Some([key |-> IF IsSome(rep) THEN expand(Unwrap(caps), Unwrap(rep))
                                ELSE Unwrap(caps)[1],
                        size |-> rec.size])
             ELSE None
    ELSE Some(rec)
\* lines 135-153: None when the record is filtered out
FilterRename(rec, re, rep) ==
    IF IsSome(re)
    THEN IF IsSome(rep)
         THEN LET caps == captures(Unwrap(re), rec.key)
              IN  IF IsSome(caps)
                  THEN Some([key |-> expand(Unwrap(caps), Unwrap(rep)), size |-> rec.size])
                  ELSE None
         ELSE IF is_match(Unwrap(re), rec.key) THEN Some(rec) ELSE None
    ELSE Some(rec)

\* lines 124-153 for one object: the record it yields, if any
Transform(obj, prefix, re, rep) ==
    IF HasKeyAndSize(obj) THEN FilterRename(MapObj(obj, prefix), re, rep) ELSE None

\* lines 155-157: the iterator yields its next record, which is printed
EmitStep ==
    /\ pc = "emit"
    /\ idx <= Len(Unwrap(rsp.contents))
    /\ LET r == Transform(Unwrap(rsp.contents)[idx], list_req.prefix, src_filter,
                          dest_replace)
       IN  out' = IF IsSome(r) THEN Append(out, Unwrap(r)) ELSE out
    /\ idx' = idx + 1
    /\ UNCHANGED <<args, listing, pc, list_req, src_filter, dest_replace, next_marker,
                   rsp, err, reqs, fails, pages>>

\* the marker gone wrong: the first key of the page, not the last
NextMarkerMutant(r) == Unwrap(r.contents)[1].key
\* line 160
NextMarker(r) == Unwrap(r.contents)[Len(Unwrap(r.contents))].key

\* the loop gone wrong: the page is left before its last entry is handled
PageEndMutant ==
    /\ pc = "emit"
    /\ idx >= Len(Unwrap(rsp.contents))
    /\ IF IsNone(rsp.is_truncated)
       THEN pc' = "panicked" /\ next_marker' = next_marker
       ELSE IF Unwrap(rsp.is_truncated)
       THEN pc' = "loop" /\ next_marker' = NextMarker(rsp)
       ELSE pc' = "done" /\ next_marker' = next_marker
    /\ UNCHANGED <<args, listing, list_req, src_filter, dest_replace, rsp, idx, out,
                   err, reqs, fails, pages>>
\* lines 159-163: is_truncated.unwrap() panics on None
PageEnd ==
    /\ pc = "emit"
    /\ idx > Len(Unwrap(rsp.contents))
    /\ IF IsNone(rsp.is_truncated)
       THEN pc' = "panicked" /\ next_marker' = next_marker
       ELSE IF Unwrap(rsp.is_truncated)
       THEN pc' = "loop" /\ next_marker' = NextMarker(rsp)
       ELSE pc' = "done" /\ next_marker' = next_marker
    /\ UNCHANGED <<args, listing, list_req, src_filter, dest_replace, rsp, idx, out,
                   err, reqs, fails, pages>>

\* main(), lines 84-89, and the runtime: the process's exit status
ExitStatus ==
    CASE pc = "done" -> 0
      [] pc = "failed" -> 1
      [] pc = "panicked" -> 101
      [] OTHER -> -1

Next ==
    \/ Startup
    \/ FetchIssue
    \/ FetchFail
    \/ FetchReturn
    \/ EmitStep
    \/ PageEnd

Spec == Init /\ [][Next]_vars

---------------------------------------------------------------------------
\* The service behind list_objects, for a bucket whose content is listing:
\* ListObjects returns, in listing order, the entries that follow the marker,
\* at most n of them, and reports whether more remain.

Ord(c) ==
    CASE c = LF -> 10
      [] c = "/" -> 47
      [] c = "a" -> 97
      [] c = "b" -> 98
      [] c = "k" -> 107
      [] c = "p" -> 112
      [] OTHER -> 120

\* a <= b in the byte order the service lists keys in
RECURSIVE KeyLeq(_, _)
KeyLeq(a, b) ==
    IF a = <<>> THEN TRUE
    ELSE IF b = <<>> THEN FALSE
    ELSE IF Head(a) = Head(b) THEN KeyLeq(Tail(a), Tail(b))
    ELSE Ord(Head(a)) < Ord(Head(b))

\* the position in objs the listing resumes at for marker
StartPos(objs, marker) ==
    IF IsNone(marker) THEN 1
    ELSE 1 + Max({0} \cup {i \in 1..Len(objs) :
                     IsSome(objs[i].key) /\ KeyLeq(Unwrap(objs[i].key), Unwrap(marker))})

Serve(objs, req, n) ==
    LET start == StartPos(objs, req.marker)
        last == Min({start + n - 1, Len(objs)})
        contents == SubSeq(objs, start, last)
    IN  [contents |-> IF contents = <<>> THEN None ELSE Some(contents),
         is_truncated |-> Some(last < Len(objs))]

FetchServe ==
    /\ pc = "waiting"
    /\ \E n \in 1..MaxKeys :
          Receive(Serve(UnderPrefix(list_req.prefix, listing), list_req, n))

ListInit == \E a \in GoodArgs, l \in ListingPool : InitWith(a, l)

ListNext ==
    \/ Startup
    \/ FetchIssue
    \/ FetchServe
    \/ EmitStep
    \/ PageEnd

ListSpec == ListInit /\ [][ListNext]_vars

---------------------------------------------------------------------------
\* The location parser alone: the source location ranges over every string
\* made of one of UrlHeads and at most MaxTail of TailChars.

UrlHeads ==
    { Scheme,
      <<"s", "3", ":", "/">>,
      <<"S", "3", ":", "/", "/">>,
      <<"x">> \o Scheme,
      <<>> }

TailChars == {"k", "/", LF}

ParseInit ==
    \E h \in UrlHeads, t \in SeqsUpTo(TailChars, MaxTail) :
        InitWith(ArgsOf(h \o t, UrlBare, None, None, None, None, None), <<>>)

ParseNext == Startup

ParseSpec == ParseInit /\ [][ParseNext]_vars

---------------------------------------------------------------------------
\* Claims about the location parser (ParseSpec).

\* the position of the slash that ends the container of v, when v reads
\* s3://container/keypath with a non-empty, slash-free container; else {}
ContainerEnds(v) ==
    {i \in (Len(Scheme) + 2)..Len(v) :
        /\ SubSeq(v, 1, Len(Scheme)) = Scheme
        /\ v[i] = "/"
        /\ \A j \in (Len(Scheme) + 1)..(i - 1) : v[j] # "/"}

HasLocationForm(v) == ContainerEnds(v) # {}

\* C5: parsing the source location succeeds exactly when it reads
\* s3://container/keypath with a non-empty container free of '/', and fails
\* with a malformed-location error otherwise; on success the container is the
\* text between s3:// and the next '/', and keyPrefix is the whole text after
\* that '/' when that text is non-empty and absent when it is empty, so a
\* present keyPrefix is never the empty string.
C5_ParseLocation ==
    pc # "start" =>
        LET v == args.arg_src_url
        IN  IF HasLocationForm(v)
            THEN LET i == CHOOSE i \in ContainerEnds(v) : TRUE
                     keypath == SubSeq(v, i + 1, Len(v))
                 IN  /\ pc = "loop"
                     /\ list_req.bucket = SubSeq(v, Len(Scheme) + 1, i - 1)
                     /\ list_req.prefix = IF keypath # <<>> THEN Some(keypath) ELSE None
                     /\ list_req.prefix # Some(<<>>)
            ELSE pc = "failed" /\ err = Some("MalformedLocation")

\* C5 holds of every location without a line feed: the part of the claim the
\* parser keeps
C5_ParseLocationOneLine ==
    (\A j \in 1..Len(args.arg_src_url) : args.arg_src_url[j] # LF) => C5_ParseLocation

\* the examples of the claim: s3://k/k/k/ gives k, k/k/ and s3://k/ gives k, absent
C5_Examples ==
    /\ visit_str(Scheme \o <<"k", "/", "k", "/", "k", "/">>)
         = Some([bucket |-> <<"k">>, prefix |-> Some(<<"k", "/", "k", "/">>)])
    /\ visit_str(Scheme \o <<"k", "/">>) = Some([bucket |-> <<"k">>, prefix |-> None])

---------------------------------------------------------------------------
\* What the claims about the listing loop speak of.

PageObjs(r) == IF IsSome(r.contents) THEN Unwrap(r.contents) ELSE <<>>

\* every entry of the pages ps, page after page, in page order
RECURSIVE AllObjs(_)
AllObjs(ps) == IF ps = <<>> THEN <<>> ELSE PageObjs(Head(ps)) \o AllObjs(Tail(ps))

\* the entries the loop has gone through: every returned page, less what is
\* left of the page being printed
ProcessedObjs ==
    LET all == AllObjs(pages)
    IN  IF pc = "emit"
        THEN SubSeq(all, 1, Len(all) - Len(PageObjs(rsp)) + idx - 1)
        ELSE all

Usable(obj) == obj.key # None /\ obj.size # None

\* the key of obj with its first len(prefix) characters removed
RelativeKey(obj, prefix) ==
    LET full == obj.key[1]
        n == IF prefix = None THEN 0 ELSE Len(prefix[1])
    IN  [j \in 1..(Len(full) - n) |-> full[j + n]]

\* one record (RelativeKey, size) per usable entry of objs, in order
RECURSIVE PlainRecords(_, _)
PlainRecords(objs, prefix) ==
    IF objs = <<>> THEN <<>>
    ELSE (IF Usable(Head(objs))
          THEN <<[key |-> RelativeKey(Head(objs), prefix), size |-> Head(objs).size[1]]>>
          ELSE <<>>) \o PlainRecords(Tail(objs), prefix)

\* the records of the usable entries of objs whose RelativeKey re matches:
\* the RelativeKey itself without a template, the expanded template with one
RECURSIVE MatchedRecords(_, _, _, _)
MatchedRecords(objs, prefix, re, rep) ==
    IF objs = <<>> THEN <<>>
    ELSE LET o == Head(objs)
             rest == MatchedRecords(Tail(objs), prefix, re, rep)
         IN  IF Usable(o) /\ is_match(re, RelativeKey(o, prefix))
             THEN <<[key |-> IF rep = None THEN RelativeKey(o, prefix)
                             ELSE expand(captures(re, RelativeKey(o, prefix))[1], rep[1]),
                     size |-> o.size[1]]>> \o rest
             ELSE rest

\* what the loop prints for objs under the run's prefix, filter and template
RECURSIVE Printed(_)
Printed(objs) ==
    IF objs = <<>> THEN <<>>
    ELSE LET r == Transform(Head(objs), list_req.prefix, src_filter, dest_replace)
         IN  (IF IsSome(r) THEN <<Unwrap(r)>> ELSE <<>>) \o Printed(Tail(objs))

IsPrefixOf(a, b) == Len(a) <= Len(b) /\ a = SubSeq(b, 1, Len(a))

LastPage == pages[Len(pages)]
NonEmptyPage(r) == r.contents # None /\ r.contents[1] # <<>>
Outstanding == Len(reqs) - Len(pages) - fails

---------------------------------------------------------------------------
\* Claims about the listing loop under any list_objects (Spec).

\* C1: without a filter, once list_objects has returned a sequence of pages
\* of which every one before the last is non-empty and truncated and the last
\* is empty, absent or reported not truncated, the run has ended without error
\* and has printed exactly one record per entry with key and size, page after
\* page in listing order, none twice and none left out.
C1_AllPagesInOrder ==
    ( /\ pc \notin {"start", "emit"}
      /\ args.flag_src_filter = None
      /\ fails = 0
      /\ pages # <<>>
      /\ \A i \in 1..(Len(pages) - 1) :
            NonEmptyPage(pages[i]) /\ pages[i].is_truncated = Some(TRUE)
      /\ ~NonEmptyPage(LastPage) \/ LastPage.is_truncated = Some(FALSE) )
    => /\ pc = "done"
       /\ err = None
       /\ ExitStatus = 0
       /\ out = PlainRecords(AllObjs(pages), list_req.prefix)

\* pages of 2, 3 and 0 entries have given 5 records
C1_Witness ==
    /\ pc = "done"
    /\ args.flag_src_filter = None
    /\ Len(pages) = 3
    /\ Len(PageObjs(pages[1])) = 2
    /\ Len(PageObjs(pages[2])) = 3
    /\ pages[3].contents = Some(<<>>)
    /\ Len(out) = 5

\* C2: with a filter the printed records are, in order, those of the entries
\* gone through whose RelativeKey the pattern matches; the key printed is the
\* RelativeKey when no template is given and the template expanded with the
\* match's groups when one is; the size printed is the entry's.
C2_FilterAndRename ==
    (pc # "start" /\ src_filter # None)
    => out = MatchedRecords(ProcessedObjs, list_req.prefix, src_filter[1], dest_replace)

\* a filter-only run has kept ab (matched in its middle) and dropped a
C2_WitnessFilterOnly ==
    /\ src_filter = Some(PatB) /\ dest_replace = None
    /\ list_req.prefix # None
    /\ \E i \in 1..Len(out) : out[i].key = KeyAB
    /\ \E i \in 1..Len(ProcessedObjs) :
          Usable(ProcessedObjs[i]) /\ RelativeKey(ProcessedObjs[i], list_req.prefix) = KeyA
    /\ \A i \in 1..Len(out) : out[i].key # KeyA

\* a filter-and-rename run has renamed ab and dropped b
C2_WitnessRename ==
    /\ src_filter = Some(PatStartA) /\ dest_replace = Some(TemplateX21)
    /\ \E i \in 1..Len(out) : out[i] = [key |-> <<"x", "b", "/", "a">>, size |-> 3]
    /\ \E i \in 1..Len(ProcessedObjs) :
          Usable(ProcessedObjs[i]) /\ RelativeKey(ProcessedObjs[i], list_req.prefix) = KeyB
    /\ Len(out) < Len(ProcessedObjs)

\* C6: without a filter, with or without a template, the printed records are
\* exactly one (RelativeKey, size) per entry gone through that has a key and a
\* size, RelativeKey being the key less its first len(keyPrefix) characters
\* (the key itself without a prefix) and size the entry's size.
C6_NoFilterKeepsAll ==
    (pc # "start" /\ args.flag_src_filter = None)
    => out = PlainRecords(ProcessedObjs, list_req.prefix)

\* under prefix p/ and with a template but no filter, p/ab of size 3 was
\* printed as ab, 3
C6_Witness ==
    /\ args.flag_src_filter = None
    /\ dest_replace # None
    /\ list_req.prefix = Some(<<"p", "/">>)
    /\ \E i \in 1..Len(ProcessedObjs) :
          ProcessedObjs[i] = Obj(Some(<<"p", "/", "a", "b">>), Some(3))
    /\ \E i \in 1..Len(out) : out[i] = [key |-> KeyAB, size |-> 3]

\* C3: when a call of list_objects fails the run is over at once: it has
\* failed exactly once (no retry), the error is printed and the exit status is
\* not 0, the failing call printed nothing, and from then on no page is
\* fetched and no record is printed; what was printed before stays printed.
C3_FetchFailureAborts ==
    /\ [](fails > 0 =>
            /\ fails = 1
            /\ pc = "failed"
            /\ err # None
            /\ ExitStatus # 0
            /\ Len(reqs) = Len(pages) + 1)
    /\ [][fails' > fails => out' = out /\ reqs' = reqs /\ pages' = pages]_vars
    /\ [][fails > 0 => out' = out /\ reqs' = reqs /\ pages' = pages /\ pc' = pc]_vars

\* the second fetch has failed after the first page's records were printed
C3_Witness ==
    /\ fails = 1
    /\ pc = "failed"
    /\ Len(pages) = 1
    /\ Len(reqs) = 2
    /\ Len(out) = 2

\* C7: the first request carries no marker; every later request carries the
\* key of the last entry of the page returned just before it, a page that was
\* non-empty and reported truncated; every request names the bucket and the
\* prefix of the source location.
C7_CursorChain ==
    \A i \in 1..Len(reqs) :
        /\ reqs[i].bucket = visit_str(args.arg_src_url)[1].bucket
        /\ reqs[i].prefix = visit_str(args.arg_src_url)[1].prefix
        /\ reqs[i].bucket = reqs[1].bucket /\ reqs[i].prefix = reqs[1].prefix
        /\ IF i = 1 THEN reqs[i].marker = None
           ELSE LET prev == PageObjs(pages[i - 1])
                IN  /\ prev # <<>>
                    /\ pages[i - 1].is_truncated = Some(TRUE)
                    /\ reqs[i].marker = prev[Len(prev)].key

\* a third request went out with the last key of a three-entry second page,
\* whose first key differs
C7_Witness ==
    /\ Len(reqs) = 3
    /\ Len(PageObjs(pages[2])) = 3
    /\ reqs[3].marker # None
    /\ reqs[3].marker # PageObjs(pages[2])[1].key
    /\ reqs[2].marker # reqs[3].marker

\* C8: the run goes past a page only if the page is non-empty and reported
\* truncated; an empty or absent page ends it at once and a non-empty page
\* not reported truncated ends it once its records are printed, in both cases
\* with no further request, no error and exit status 0; a non-empty page
\* reported truncated does not end it.
C8_StopsAtFirstFinalPage ==
    /\ \A i \in 1..(Len(pages) - 1) :
          NonEmptyPage(pages[i]) /\ pages[i].is_truncated = Some(TRUE)
    /\ pages # <<>> =>
          /\ ~NonEmptyPage(LastPage) =>
                /\ pc = "done" /\ err = None /\ ExitStatus = 0
                /\ Len(reqs) = Len(pages)
                /\ out = Printed(AllObjs(SubSeq(pages, 1, Len(pages) - 1)))
          /\ (NonEmptyPage(LastPage) /\ LastPage.is_truncated # Some(TRUE)) =>
                /\ Len(reqs) = Len(pages)
                /\ pc \in {"emit", "done"}
                /\ pc = "done" => /\ err = None /\ ExitStatus = 0
                                  /\ out = Printed(AllObjs(pages))
          /\ (NonEmptyPage(LastPage) /\ LastPage.is_truncated = Some(TRUE)) =>
                /\ pc \in {"emit", "loop", "waiting", "failed"}
                /\ pc = "failed" => fails > 0
    /\ pc = "done" =>
          /\ pages # <<>>
          /\ ~NonEmptyPage(LastPage) \/ LastPage.is_truncated # Some(TRUE)

\* a non-empty page has come without the truncation flag
FlagAbsent == \E i \in 1..Len(pages) : NonEmptyPage(pages[i]) /\ pages[i].is_truncated = None

\* C8 as far as the code keeps it: of pages that carry the flag
C8_UnlessFlagAbsent == FlagAbsent \/ C8_StopsAtFirstFinalPage

\* the run has ended on an empty second page, after a truncated first one
C8_WitnessEmpty ==
    /\ pc = "done"
    /\ Len(pages) = 2
    /\ pages[2].contents = Some(<<>>)
    /\ pages[2].is_truncated = Some(TRUE)
    /\ out # <<>>

\* C9: a request is outstanding only while the run waits for it, never two;
\* when one is outstanding every record of every page returned so far has been
\* printed; and nothing is ever printed that the pages returned so far do not
\* yield, in their order.
C9_PageByPage ==
    /\ Outstanding \in {0, 1}
    /\ Outstanding = 1 <=> pc = "waiting"
    /\ Outstanding = 1 => out = Printed(AllObjs(pages))
    /\ IsPrefixOf(out, Printed(AllObjs(pages)))
    /\ pc # "emit" => out = Printed(AllObjs(pages))

\* the second request is outstanding with both records of the first page printed
C9_Witness ==
    /\ pc = "waiting"
    /\ Len(reqs) = 2
    /\ Len(pages) = 1
    /\ Len(PageObjs(pages[1])) = 2
    /\ Len(out) = 2

---------------------------------------------------------------------------
\* Claims about a run against the listing service (ListSpec).

\* the bucket's entries as the service returns them
Bucket == UnderPrefix(list_req.prefix, listing)

\* a truncated page has ended on an entry without a key
KeylessPageEnd ==
    \E i \in 1..Len(pages) :
        /\ NonEmptyPage(pages[i])
        /\ pages[i].is_truncated = Some(TRUE)
        /\ PageObjs(pages[i])[Len(PageObjs(pages[i]))].key = None

\* C4: entries without a key or without a size print nothing and leave the
\* enumeration as it is, wherever they sit in a page: the run meets no error,
\* what is printed is at every moment the start of the records of the
\* bucket's other entries, each once and in listing order, and is all of them
\* when the run ends.
C4_MalformedEntriesSkipped ==
    pc # "start" =>
        /\ pc \notin {"failed", "panicked"}
        /\ IsPrefixOf(out, Printed(Bucket))
        /\ pc = "done" => out = Printed(Bucket)

\* C4 as far as the code keeps it: as long as no truncated page has ended on
\* an entry without a key
C4_UnlessKeylessPageEnd == KeylessPageEnd \/ C4_MalformedEntriesSkipped

\* C10: over a finite listing the run terminates, because every request after
\* the first resumes the listing strictly later than the request before it;
\* so a run makes no more requests than the listing has entries (one for an
\* empty listing).
C10_CursorAdvances ==
    /\ \A i \in 2..Len(reqs) :
          StartPos(Bucket, reqs[i].marker) > StartPos(Bucket, reqs[i - 1].marker)
    /\ Len(reqs) <= Max({1, Len(listing)})

\* C10 as far as the code keeps it
C10_UnlessKeylessPageEnd == KeylessPageEnd \/ C10_CursorAdvances

====
